---- MODULE Spec2Model ----
(***************************************************************************)
(* Model of app.py: the MCQ parser pipeline.  A batch of uploaded files is *)
(* processed one file at a time: text and images are extracted, the oracle *)
(* (chat completion) is asked for JSON up to max_retries times, the reply  *)
(* is stripped of code fences, parsed, normalised into question dicts,     *)
(* images are matched and uploaded, and the cleaned dicts are accumulated  *)
(* in data_list; on the operator's request data_list is upserted row by    *)
(* row.                                                                    *)
(*                                                                         *)
(* Python dicts are functions with a string domain; JSON numbers that may  *)
(* also be null are tagged values (JInt, JNull); a reply is a sequence of  *)
(* tokens.                                                                 *)
(***************************************************************************)
EXTENDS Integers, Sequences, FiniteSets, TLC

\* ---------------------------------------------------------------- bounds
MaxFiles == 2       \* files in a batch
MaxQuestions == 2   \* question objects in one oracle reply
MaxImages == 1      \* images extracted from one file
MaxPages == 2       \* pages of a PDF
MaxPageImages == 2  \* images listed on a page
MaxEntries == 3     \* entries of a DOCX archive

\* ------------------------------------------------------ program constants
max_retries == 3
retry_delay == 5

\* ------------------------------------------------------------ Python data
JInt(n) == [t |-> "int", v |-> n]
JNull == [t |-> "null", v |-> 0]

\* dict.get(k, default)
Get(d, k, default) == IF k \in DOMAIN d THEN d[k] ELSE default

\* dict.pop(k, None)
Pop(d, k) == [f \in DOMAIN d \ {k} |-> d[f]]

\* d[k] = v
SetItem(d, k, v) == [f \in DOMAIN d \cup {k} |-> IF f = k THEN v ELSE d[f]]

\* list[p] with Python's index rule: 0-based, negative p counts from the
\* end, anything else is an IndexError
IndexOk(list, p) == -Len(list) <= p /\ p < Len(list)

\* ------------------------------------------------- the oracle's questions
\* The keys the prompt asks for (taxonomy codes left out).
Content1 ==
    [questionStem |-> "s1", correctAnswerId |-> 0,
     answersArray |-> <<"A", "B">>, explanationList |-> <<"eA", "eB">>]

Content2 ==
    [questionStem |-> "s1", correctAnswerId |-> 0,
     answersArray |-> <<"A", "B">>, explanationList |-> <<"eA">>]

Content3 ==
    [questionStem |-> "s2", correctAnswerId |-> 2,
     answersArray |-> <<"A", "B">>, explanationList |-> <<"eA", "eB">>]

\* a question whose stem quotes a command between code-fence markers, and
\* what str.replace(marker, "") leaves of that stem
StemWithFence == "What does [fence]ls[fence] print?"
StemFenceRemoved == "What does ls print?"

Content4 == [Content1 EXCEPT !.questionStem = StemWithFence]

NoHint == [f \in {} |-> TRUE]

\* hasImage / imagePosition as the oracle may send them: each present or not,
\* the position any integer around the image range, or null (a false
\* hasImage with two of the positions only)
Positions == {JInt(n) : n \in -(MaxImages + 1)..MaxImages} \cup {JNull}

ImageHints ==
    {NoHint, "hasImage" :> TRUE, "hasImage" :> FALSE, "imagePosition" :> JInt(0)}
    \cup {("hasImage" :> FALSE) @@ ("imagePosition" :> p) : p \in {JInt(0), JNull}}
    \cup {("hasImage" :> TRUE) @@ ("imagePosition" :> p) : p \in Positions}

\* questions offered to a single-file batch: every image hint, one content
DocQuestions == {Content1 @@ h : h \in ImageHints}

\* questions offered to a multi-file batch: the contents, the last one with
\* an image reference
BatchQuestions ==
    {Content1, Content2,
     Content3 @@ ("hasImage" :> TRUE) @@ ("imagePosition" :> JInt(0))}

\* ------------------------------------------------------ the oracle's reply
\* A reply is a sequence of tokens: code-fence markers, whitespace, prose,
\* and at most a few JSON texts.  A JSON text is an object of per-question
\* objects ("mapping"), one question object ("single") or an array of
\* question objects ("array"); the members of an object are listed as
\* written, so a key may be written twice.
NoPayload == [kind |-> "none", entries |-> <<>>]

FenceJson == [tok |-> "fence_json", val |-> NoPayload]
Fence == [tok |-> "fence", val |-> NoPayload]
Ws == [tok |-> "ws", val |-> NoPayload]
Prose == [tok |-> "prose", val |-> NoPayload]
Json(p) == [tok |-> "json", val |-> p]

\* key sequences of n members: "0","1",.. as the prompt shows, the same in
\* reverse, and one key written n times
KeyName(i) == IF i = 0 THEN "0" ELSE IF i = 1 THEN "1" ELSE IF i = 2 THEN "2" ELSE "3"

KeySeqs(n) ==
    {[i \in 1..n |-> KeyName(i - 1)],
     [i \in 1..n |-> KeyName(n - i)],
     [i \in 1..n |-> KeyName(0)]}

Mappings(Q) ==
    {[kind |-> "mapping", entries |-> [i \in 1..n |-> [key |-> ks[i], q |-> qs[i]]]] :
        <<n, ks, qs>> \in
            UNION {{<<m, k, s>> : k \in KeySeqs(m), s \in [1..m -> Q]} : m \in 0..MaxQuestions}}

\* the same with the keys "0","1",.. only
PlainMappings(Q) ==
    {[kind |-> "mapping",
      entries |-> [i \in 1..n |-> [key |-> KeyName(i - 1), q |-> qs[i]]]] :
        <<n, qs>> \in UNION {{<<m, s>> : s \in [1..m -> Q]} : m \in 0..MaxQuestions}}

Payloads(Q) ==
    Mappings(Q)
    \cup {[kind |-> "single", entries |-> <<[key |-> "", q |-> q]>>] : q \in Q}
    \cup {[kind |-> "array", entries |-> <<[key |-> "", q |-> q]>>] : q \in Q}

Bare(p) == <<Json(p)>>
Fenced(p) == <<FenceJson, Ws, Json(p), Ws, Fence>>

\* what the oracle may answer: JSON bare or fenced, prose, prose around JSON
Replies(Q) ==
    {Bare(p) : p \in Payloads(Q)}
    \cup {Fenced(p) : p \in PlainMappings(Q)}
    \cup {<<Prose>>, <<Prose, Ws, Json([kind |-> "mapping", entries |-> <<>>])>>}

\* the same payload between plain fence markers
FencedPlain(p) == <<Fence, Ws, Json(p), Ws, Fence>>

\* replies that carry one JSON text, bare and fenced, some with a question
\* whose stem contains a fence marker
FenceQuestions == {Content1, Content3, Content4}

FenceReplies ==
    UNION {{Bare(p), Fenced(p), FencedPlain(p)} : p \in Payloads(FenceQuestions)}

\* replies to a single-file batch and to a multi-file batch
DocReplies == Replies(DocQuestions)

\* (to a multi-file batch: no question or one question per reply)
BatchReplies ==
    {Bare([kind |-> "mapping", entries |-> <<>>]), <<Prose>>}
    \cup {Bare([kind |-> "mapping", entries |-> <<[key |-> "0", q |-> q]>>]) :
              q \in BatchQuestions}
    \cup {Fenced([kind |-> "mapping", entries |-> <<[key |-> "0", q |-> Content1]>>])}

\* ------------------------------------------------- fence stripping, parsing
\* str.strip(): leading and trailing whitespace removed
RECURSIVE LStrip(_)
LStrip(text) ==
    IF text # <<>> /\ Head(text).tok = "ws" THEN LStrip(Tail(text)) ELSE text

RECURSIVE RStrip(_)
RStrip(text) ==
    IF text # <<>> /\ text[Len(text)].tok = "ws"
    THEN RStrip(SubSeq(text, 1, Len(text) - 1))
    ELSE text

Strip(text) == RStrip(LStrip(text))

\* str.replace(marker, "") on the text of one JSON string
ReplaceInString(s, marker) ==
    IF marker = "fence" /\ s = StemWithFence THEN StemFenceRemoved ELSE s

\* the same on a JSON text (of its strings, only stems contain markers)
ReplaceInPayload(p, marker) ==
    [kind |-> p.kind,
     entries |-> [i \in DOMAIN p.entries |->
                     [key |-> p.entries[i].key,
                      q |-> LET q == p.entries[i].q
                            IN  [f \in DOMAIN q |->
                                    IF f = "questionStem"
                                    THEN ReplaceInString(q[f], marker)
                                    ELSE q[f]]]]]

\* str.replace(marker, ""): every occurrence of the marker removed, between
\* the JSON texts and within them
Replace(text, marker) ==
    LET kept == SelectSeq(text, LAMBDA t : t.tok # marker)
    IN  [i \in DOMAIN kept |->
            IF kept[i].tok = "json"
            THEN Json(ReplaceInPayload(kept[i].val, marker))
            ELSE kept[i]]

\* json_response, lines 447-448
StripFences(content) ==
    Strip(Replace(Replace(Strip(content), "fence_json"), "fence"))

\* the dict Python builds from the members of a JSON object: a key written
\* again keeps its first position and takes the later value
DictPut(items, e) ==
    IF \E i \in 1..Len(items) : items[i].key = e.key
    THEN [i \in 1..Len(items) |->
             IF items[i].key = e.key THEN [items[i] EXCEPT !.val = e.val] ELSE items[i]]
    ELSE Append(items, e)

RECURSIVE DictItems(_, _)
DictItems(entries, items) ==
    IF entries = <<>> THEN items
    ELSE DictItems(Tail(entries),
                   DictPut(items, [key |-> Head(entries).key, isdict |-> TRUE,
                                   val |-> Head(entries).q]))

\* the keys of a question object in the order the prompt lists them
FieldOrder ==
    <<"questionStem", "correctAnswerId", "answersArray", "explanationList",
      "hasImage", "imagePosition">>

\* the value json.loads returns for a JSON text: a dict (its items in
\* insertion order, each value a dict or not) or a list
Decode(p) ==
    IF p.kind = "mapping"
    THEN [t |-> "dict", items |-> DictItems(p.entries, <<>>)]
    ELSE IF p.kind = "single"
    THEN [t |-> "dict",
          items |-> LET q == p.entries[1].q
                        present == SelectSeq(FieldOrder, LAMBDA f : f \in DOMAIN q)
                    IN  [i \in 1..Len(present) |->
                            [key |-> present[i], isdict |-> FALSE, val |-> NoHint]]]
    ELSE [t |-> "list",
          items |-> [i \in 1..Len(p.entries) |->
                        [key |-> "", isdict |-> TRUE, val |-> p.entries[i].q]]]

NoData == [t |-> "none", items |-> <<>>]

\* json.loads, line 451: whitespace between tokens is skipped; anything but
\* exactly one JSON text is a JSONDecodeError
json_loads(text) ==
    LET toks == SelectSeq(text, LAMBDA t : t.tok # "ws")
    IN  IF Len(toks) = 1 /\ toks[1].tok = "json"
        THEN [ok |-> TRUE, value |-> Decode(toks[1].val)]
        ELSE [ok |-> FALSE, value |-> NoData]

\* -------------------------------------------------------------- normalizer
\* lines 452-460: raised is the TypeError of an item assignment on a value
\* that is not a dict
RECURSIVE NormalizeItems(_, _, _)
NormalizeItems(items, file_name, acc) ==
    IF items = <<>> THEN [raised |-> FALSE, file_questions |-> acc]
    ELSE IF ~Head(items).isdict THEN [raised |-> TRUE, file_questions |-> acc]
    ELSE NormalizeItems(Tail(items), file_name,
                        Append(acc, SetItem(Head(items).val, "source_file", file_name)))

\* (each question replacing the list instead of being appended to it)
Normalize_last_only(parsed_data, file_name) ==
    IF parsed_data.t = "dict"
    THEN LET r == NormalizeItems(parsed_data.items, file_name, <<>>)
         IN  [r EXCEPT !.file_questions = IF @ = <<>> THEN @ ELSE <<@[Len(@)]>>]
    ELSE [raised |-> TRUE, file_questions |-> <<>>]

Normalize(parsed_data, file_name) ==
    IF parsed_data.t = "dict"
    THEN NormalizeItems(parsed_data.items, file_name, <<>>)
    ELSE [raised |-> TRUE, file_questions |-> <<>>]

\* ------------------------------------------------------------ image binder
\* the public URL of an upload: the generated name, unique by its uuid
PublicUrl(question_index, uuid) == <<"mcq-images", question_index, uuid>>

\* (the origin tag left in)
CleanUp_keeps_source(q) == Pop(Pop(q, "hasImage"), "imagePosition")

\* lines 213-216
CleanUp(q) == Pop(Pop(Pop(q, "hasImage"), "imagePosition"), "source_file")

\* (an index past the end taken as the last image)
BindDecision_clamp(has_image, image_position, extracted_images) ==
    IF has_image /\ image_position.t = "null"
    THEN [act |-> "raise", index |-> 0]
    ELSE IF has_image /\ extracted_images # <<>>
            /\ image_position.v >= -Len(extracted_images)
    THEN [act |-> "upload",
          index |-> IF image_position.v >= Len(extracted_images)
                    THEN Len(extracted_images) - 1
                    ELSE IF image_position.v >= 0 THEN image_position.v
                    ELSE Len(extracted_images) + image_position.v]
    ELSE [act |-> "skip", index |-> 0]

\* lines 192-195: what is done for a question.  Comparing a null
\* image_position with an int is a TypeError, raised outside the try; an
\* index below -len is an IndexError inside the try, which is caught.
\* index is the 0-based position of the image that is uploaded.
BindDecision(has_image, image_position, extracted_images) ==
    IF has_image /\ image_position.t = "null"
    THEN [act |-> "raise", index |-> 0]
    ELSE IF has_image /\ image_position.v < Len(extracted_images)
            /\ IndexOk(extracted_images, image_position.v)
    THEN [act |-> "upload",
          index |-> IF image_position.v >= 0 THEN image_position.v
                    ELSE Len(extracted_images) + image_position.v]
    ELSE [act |-> "skip", index |-> 0]

\* lines 204-205: the upload returned a URL
UploadDone(st, question, call, image_url) ==
    [st EXCEPT !.updated_questions =
                   Append(@, CleanUp(SetItem(question, "image", image_url))),
               !.uploaded = Append(@, [url |-> image_url, data |-> call.data]),
               !.calls = Append(@, call)]

\* (a failed upload raising out of the binder)
UploadFailed_raises(st, question, call) ==
    [st EXCEPT !.raised = TRUE, !.calls = Append(@, call)]

\* lines 207-208: the upload returned None
UploadFailed(st, question, call) ==
    [st EXCEPT !.updated_questions = Append(@, CleanUp(question)),
               !.calls = Append(@, call)]

\* (a question that declares no imagePosition taken to mean the first image)
MatchOne_first_image(st, i, question, extracted_images, upload, uuid_base) ==
    LET has_image == Get(question, "hasImage", FALSE)
        image_position == Get(question, "imagePosition", JInt(0))
        d == BindDecision(has_image, image_position, extracted_images)
    IN  IF d.act = "raise" THEN [st EXCEPT !.raised = TRUE]
        ELSE IF d.act = "upload"
        THEN LET image_info == extracted_images[d.index + 1]
                 uuid == uuid_base + Len(st.uploaded) + 1
                 call == [question_index |-> i, data |-> image_info, result |-> upload]
             IN  IF upload = "ok"
                 THEN UploadDone(st, question, call, PublicUrl(i, uuid))
                 ELSE UploadFailed(st, question, call)
        ELSE [st EXCEPT !.updated_questions = Append(@, CleanUp(question))]

\* lines 185-218 for the question at list position i (0-based), with st the
\* binder's progress so far; upload is the outcome of the storage upload
\* ("ok": a URL is returned, "fail": None is returned), uuid_base the number
\* of objects stored before this call.  calls lists the uploads attempted.
MatchOne(st, i, question, extracted_images, upload, uuid_base) ==
    LET has_image == Get(question, "hasImage", FALSE)
        image_position == Get(question, "imagePosition", JInt(i))
        d == BindDecision(has_image, image_position, extracted_images)
    IN  IF d.act = "raise" THEN [st EXCEPT !.raised = TRUE]
        ELSE IF d.act = "upload"
        THEN LET image_info == extracted_images[d.index + 1]
                 uuid == uuid_base + Len(st.uploaded) + 1
                 call == [question_index |-> i, data |-> image_info, result |-> upload]
             IN  IF upload = "ok"
                 THEN UploadDone(st, question, call, PublicUrl(i, uuid))
                 ELSE UploadFailed(st, question, call)
        ELSE [st EXCEPT !.updated_questions = Append(@, CleanUp(question))]

RECURSIVE MatchFrom(_, _, _, _, _, _)
MatchFrom(st, i, parsed_questions, extracted_images, uploads, uuid_base) ==
    IF i >= Len(parsed_questions) \/ st.raised THEN st
    ELSE MatchFrom(MatchOne(st, i, parsed_questions[i + 1], extracted_images,
                            uploads[i + 1], uuid_base),
                   i + 1, parsed_questions, extracted_images, uploads, uuid_base)

\* (the binder returning the questions done so far instead of raising)
match_images_to_questions_partial(parsed_questions, extracted_images, uploads, uuid_base) ==
    [MatchFrom([raised |-> FALSE, updated_questions |-> <<>>, uploaded |-> <<>>,
                calls |-> <<>>],
               0, parsed_questions, extracted_images, uploads, uuid_base)
        EXCEPT !.raised = FALSE]

\* match_images_to_questions, lines 181-220
match_images_to_questions(parsed_questions, extracted_images, uploads, uuid_base) ==
    MatchFrom([raised |-> FALSE, updated_questions |-> <<>>, uploaded |-> <<>>,
               calls |-> <<>>],
              0, parsed_questions, extracted_images, uploads, uuid_base)

\* lines 467-473
CleanUpAll(file_questions) ==
    [i \in 1..Len(file_questions) |-> CleanUp(file_questions[i])]

\* --------------------------------------------------- one attempt, 365-477
\* The try body for one oracle content: exc is "none" when line 477 is
\* reached, "json" for a JSONDecodeError, "other" for any other exception.
TryBody(content, file_name, images, uploads, uuid_base) ==
    LET json_response == StripFences(content)
        loaded == json_loads(json_response)
        norm == Normalize(loaded.value, file_name)
        bound == match_images_to_questions(norm.file_questions, images, uploads, uuid_base)
        nothing == [exc |-> "json", parsed_data |-> NoData, file_questions |-> <<>>,
                    final_questions |-> <<>>, uploaded |-> <<>>, calls |-> <<>>]
    IN  IF ~loaded.ok THEN nothing
        ELSE IF norm.raised
        THEN [nothing EXCEPT !.exc = "other", !.parsed_data = loaded.value]
        ELSE IF images # <<>>
        THEN [exc |-> IF bound.raised THEN "other" ELSE "none",
              parsed_data |-> loaded.value,
              file_questions |-> norm.file_questions,
              final_questions |-> IF bound.raised THEN <<>> ELSE bound.updated_questions,
              uploaded |-> bound.uploaded,
              calls |-> bound.calls]
        ELSE [exc |-> "none",
              parsed_data |-> loaded.value,
              file_questions |-> norm.file_questions,
              final_questions |-> CleanUpAll(norm.file_questions),
              uploaded |-> <<>>,
              calls |-> <<>>]

\* (a retry after every attempt, the last one too)
RetryAgain_always(n) == n < max_retries

\* line 480
RetryAgain(n) == n < max_retries - 1

\* line 364: where control goes after iteration n of the retry loop ends
\* without a break
LoopNext(n) ==
    IF n + 1 < max_retries
    THEN [pc |-> "attempt", attempt |-> n + 1]
    ELSE [pc |-> "file", attempt |-> n]

\* (the loop going on after a break)
Break_continue(n) == LoopNext(n)

\* lines 477 and 493: break
Break(n) == [pc |-> "file", attempt |-> n]

\* (the break of line 493 left out)
AfterOtherError_retry(n) == LoopNext(n)

\* line 493: the handler of any other exception leaves the retry loop
AfterOtherError(n) == Break(n)

\* ------------------------------------------- image extraction, 92-179
\* A PDF is its pages in order, a page the images page.get_images lists, in
\* order, each decodable or not; a DOCX is the entries zipfile's namelist()
\* gives, in order, each under word/media/ or not, with an extension, and
\* readable as an image or not.  An entry's name is its listing position
\* and its extension.  A file that cannot be opened has opens false.
NoDocument == [type |-> "none", opens |-> FALSE, pages |-> <<>>, namelist |-> <<>>]

SeqsUpTo(S, n) == UNION {[1..m -> S] : m \in 0..n}

PdfDocuments ==
    {[type |-> "pdf", opens |-> TRUE, pages |-> ps, namelist |-> <<>>] :
        ps \in SeqsUpTo(SeqsUpTo([decodes : BOOLEAN], MaxPageImages), MaxPages)}
    \cup {[type |-> "pdf", opens |-> FALSE, pages |-> <<>>, namelist |-> <<>>]}

Extensions == {"jpeg", "emf"}

DocxDocuments ==
    {[type |-> "docx", opens |-> TRUE, pages |-> <<>>,
      namelist |-> [k \in DOMAIN es |->
                       [name |-> <<k, es[k].ext>>, media |-> es[k].media,
                        ext |-> es[k].ext, readable |-> es[k].readable]]] :
        es \in SeqsUpTo([media : BOOLEAN, ext : Extensions, readable : BOOLEAN],
                        MaxEntries)}
    \cup {[type |-> "docx", opens |-> FALSE, pages |-> <<>>, namelist |-> <<>>]}

\* images.append(image_info), lines 131 and 169
Collect_front(images, image_info) == <<image_info>> \o images

Collect(images, image_info) == Append(images, image_info)

\* lines 107-135: the images of one page from img_index on; an image whose
\* extraction or decoding raises is skipped
RECURSIVE PdfPage(_, _, _, _)
PdfPage(image_list, page_num, img_index, images) ==
    IF img_index = Len(image_list) THEN images
    ELSE PdfPage(image_list, page_num, img_index + 1,
                 IF image_list[img_index + 1].decodes
                 THEN Collect(images,
                              [page |-> page_num + 1, index |-> img_index,
                               filename |-> <<"page", page_num + 1, "img", img_index>>])
                 ELSE images)

\* lines 98-135: the pages from page_num on
RECURSIVE PdfPages(_, _, _)
PdfPages(pages, page_num, images) ==
    IF page_num = Len(pages) THEN images
    ELSE PdfPages(pages, page_num + 1,
                  PdfPage(pages[page_num + 1], page_num, 0, images))

\* lines 92-142; fitz.open raising gives []
extract_images_from_pdf_advanced(pdf) ==
    IF pdf.opens THEN PdfPages(pdf.pages, 0, <<>>) ELSE <<>>

\* the extensions of line 149
ImageExtensions == {"png", "jpg", "jpeg", "gif", "bmp"}

\* lines 151-173: the image files from position i on
RECURSIVE DocxFiles(_, _, _)
DocxFiles(image_files, i, images) ==
    IF i = Len(image_files) THEN images
    ELSE DocxFiles(image_files, i + 1,
                   IF image_files[i + 1].readable
                   THEN Collect(images,
                                [index |-> i, filename |-> image_files[i + 1].name,
                                 extension |-> image_files[i + 1].ext])
                   ELSE images)

\* lines 144-179; zipfile.ZipFile raising gives []
extract_images_from_docx_advanced(docx) ==
    IF docx.opens
    THEN DocxFiles(SelectSeq(docx.namelist,
                             LAMBDA f : f.media /\ f.ext \in ImageExtensions),
                   0, <<>>)
    ELSE <<>>

\* ------------------------------------------------------------------- state
VARIABLES
    nfiles,            \* len(uploaded_files)
    file_idx,          \* files taken from uploaded_files so far
    pc,                \* "file": top of the batch loop, "attempt": top of the
                       \* retry loop, "upsert": in the upsert loop, "done";
                       \* "extract", "extracted": before and after a call
                       \* of an image extraction function
    extracted_images,  \* of the current file
    temp_files,        \* files whose temporary file still exists
    attempt,           \* the retry loop's variable
    response,          \* message content of the last oracle reply
    parsed_data, file_questions, final_questions,  \* of the last attempt
    upload_calls,      \* storage uploads attempted in the last attempt
    data_list, any_errors,
    storage,           \* objects in the mcq-images bucket
    log,               \* what happened for the current file, in order
    slept,             \* time slept for the current file
    table,             \* rows of mcqQuestions
    upsert_i,          \* records taken by the upsert loop so far
    upload_errors,
    file_results,      \* per file taken: how it ended, its records
    button,            \* what st.button returned
    upsert_results,    \* per upsert call: the record passed and the outcome
    document           \* the file given to an image extraction function

vars ==
    <<nfiles, file_idx, pc, extracted_images, temp_files, attempt, response,
      parsed_data, file_questions, final_questions, upload_calls, data_list,
      any_errors, storage, log, slept, table, upsert_i, upload_errors,
      file_results, button, upsert_results, document>>

attemptVars ==
    <<response, parsed_data, file_questions, final_questions, upload_calls>>

persistVars == <<table, upsert_i, upload_errors, button, upsert_results>>

\* nothing processed yet
Fresh ==
    /\ file_idx = 0
    /\ extracted_images = <<>>
    /\ temp_files = {}
    /\ attempt = 0
    /\ response = <<>>
    /\ parsed_data = NoData
    /\ file_questions = <<>>
    /\ final_questions = <<>>
    /\ upload_calls = <<>>
    /\ data_list = <<>>
    /\ any_errors = FALSE
    /\ storage = <<>>
    /\ log = <<>>
    /\ slept = 0
    /\ table = <<>>
    /\ upsert_i = 0
    /\ upload_errors = FALSE
    /\ file_results = <<>>
    /\ button = FALSE
    /\ upsert_results = <<>>

InitWith(n) ==
    /\ nfiles \in n
    /\ pc = "file"
    /\ document = NoDocument
    /\ Fresh

\* lines 331-333, a batch of one or more files
Init == InitWith(1..MaxFiles)

\* a batch of one file
InitDoc == InitWith({1})

\* ------------------------------------------------- extraction, 222-272
FileTypes == {"pdf", "docx", "txt", "other"}

\* the images of file f: n of them, in document order
Images(f, n) == [k \in 1..n |-> <<f, k>>]

\* how the work on a file ends: "unsupported" (lines 264-266),
\* "extraction_error" (268-270), "accumulated" (475-477), "malformed"
\* (484-488), "abandoned" (490-493); "pending" while the retry loop runs
FileResult(result, records) == [result |-> result, records |-> records]

\* the current file ends with result and records
Conclude(results, result, records) ==
    [results EXCEPT ![Len(results)] = FileResult(result, records)]

\* lines 342-344: when text_content is None the flag is set and the batch
\* loop continues with the next file; otherwise the retry loop is entered
AfterExtraction_no_continue(is_none, errors) ==
    [any_errors |-> errors \/ is_none, pc |-> "attempt"]

AfterExtraction(is_none, errors) ==
    [any_errors |-> errors \/ is_none,
     pc |-> IF is_none THEN "file" ELSE "attempt"]

\* lines 335-344 with process_file_with_enhanced_extraction: the next file
\* is taken; an unsupported type or an exception gives (None, None) and the
\* file is skipped.  An exception between the creation of the temporary file
\* and os.unlink leaves the temporary file behind.
ProcessFile ==
    /\ pc = "file"
    /\ file_idx < nfiles
    /\ file_idx' = file_idx + 1
    /\ log' = <<>>
    /\ slept' = 0
    /\ attempt' = 0
    /\ response' = <<>>
    /\ parsed_data' = NoData
    /\ file_questions' = <<>>
    /\ final_questions' = <<>>
    /\ upload_calls' = <<>>
    /\ \E type \in FileTypes, raises \in BOOLEAN, n \in 0..MaxImages :
          IF type = "other" \/ raises
          THEN /\ any_errors' = AfterExtraction(TRUE, any_errors).any_errors
               /\ pc' = AfterExtraction(TRUE, any_errors).pc
               /\ extracted_images' = <<>>
               /\ file_results' = Append(file_results,
                      FileResult(IF type = "other" THEN "unsupported"
                                                   ELSE "extraction_error",
                                 <<>>))
               /\ temp_files' = IF type \in {"pdf", "docx"} /\ raises
                                THEN temp_files \cup {file_idx'}
                                ELSE temp_files
          ELSE /\ any_errors' = AfterExtraction(FALSE, any_errors).any_errors
               /\ pc' = AfterExtraction(FALSE, any_errors).pc
               /\ extracted_images' = IF type = "txt" THEN <<>> ELSE Images(file_idx', n)
               /\ file_results' = Append(file_results, FileResult("pending", <<>>))
               /\ temp_files' = temp_files
    /\ UNCHANGED <<nfiles, document, data_list, storage>>
    /\ UNCHANGED persistVars

\* extract_images_from_pdf_advanced applied to a PDF
ExtractPdf ==
    /\ pc = "extract"
    /\ document.type = "pdf"
    /\ extracted_images' = extract_images_from_pdf_advanced(document)
    /\ pc' = "extracted"
    /\ UNCHANGED <<nfiles, document, file_idx, temp_files, attempt, data_list,
                   any_errors, storage, log, slept, file_results>>
    /\ UNCHANGED attemptVars
    /\ UNCHANGED persistVars

\* extract_images_from_docx_advanced applied to a DOCX
ExtractDocx ==
    /\ pc = "extract"
    /\ document.type = "docx"
    /\ extracted_images' = extract_images_from_docx_advanced(document)
    /\ pc' = "extracted"
    /\ UNCHANGED <<nfiles, document, file_idx, temp_files, attempt, data_list,
                   any_errors, storage, log, slept, file_results>>
    /\ UNCHANGED attemptVars
    /\ UNCHANGED persistVars

\* ------------------------------------------------- retry loop, 364-493
\* the upload outcomes to consider for one content: an outcome for each
\* question whose upload is attempted ("ok" stands for the others, whose
\* outcome is never read)
UploadOutcomes(content, file_name, images) ==
    LET all_ok == [i \in 1..MaxQuestions |-> "ok"]
        calls == TryBody(content, file_name, images, all_ok, 0).calls
        called == {calls[k].question_index + 1 : k \in 1..Len(calls)}
    IN  {[i \in 1..MaxQuestions |-> IF i \in failed THEN "fail" ELSE "ok"] :
            failed \in SUBSET called}

\* lines 490-493 when the oracle call of line 436 raises
OracleRaises ==
    /\ any_errors' = TRUE
    /\ log' = log \o <<"call", "abandon">>
    /\ pc' = AfterOtherError(attempt).pc
    /\ attempt' = AfterOtherError(attempt).attempt
    /\ file_results' = Conclude(file_results, "abandoned", <<>>)
    /\ UNCHANGED attemptVars
    /\ UNCHANGED <<data_list, storage, slept>>

\* data_list.extend(final_questions), line 475
Extend_front(list, more) == more \o list

Extend(list, more) == list \o more

\* lines 447-493 when the oracle call returns content: the try body, then
\* the handler that applies
OracleReturns(content, uploads) ==
    LET r == TryBody(content, file_idx, extracted_images, uploads, Len(storage))
    IN  /\ response' = content
        /\ parsed_data' = r.parsed_data
        /\ file_questions' = r.file_questions
        /\ final_questions' = r.final_questions
        /\ upload_calls' = r.calls
        /\ storage' = storage \o r.uploaded
        /\ IF r.exc = "none"
           THEN \* lines 475-477
                /\ data_list' = Extend(data_list, r.final_questions)
                /\ file_results' = Conclude(file_results, "accumulated", r.final_questions)
                /\ log' = log \o <<"call", "accumulate">>
                /\ pc' = Break(attempt).pc
                /\ attempt' = Break(attempt).attempt
                /\ UNCHANGED <<any_errors, slept>>
           ELSE IF r.exc = "json"
           THEN \* lines 479-488
                /\ IF RetryAgain(attempt)
                   THEN /\ slept' = slept + retry_delay
                        /\ log' = log \o <<"call", "sleep">>
                        /\ UNCHANGED <<any_errors, file_results>>
                   ELSE /\ any_errors' = TRUE
                        /\ log' = log \o <<"call", "terminal">>
                        /\ file_results' = Conclude(file_results, "malformed", <<>>)
                        /\ UNCHANGED slept
                /\ pc' = LoopNext(attempt).pc
                /\ attempt' = LoopNext(attempt).attempt
                /\ UNCHANGED data_list
           ELSE \* lines 490-493
                /\ any_errors' = TRUE
                /\ log' = log \o <<"call", "abandon">>
                /\ pc' = AfterOtherError(attempt).pc
                /\ attempt' = AfterOtherError(attempt).attempt
                /\ file_results' = Conclude(file_results, "abandoned", <<>>)
                /\ UNCHANGED <<data_list, slept>>

\* One iteration of the retry loop, the oracle answering from replies.
Attempt(replies) ==
    /\ pc = "attempt"
    /\ \/ OracleRaises
       \/ \E content \in replies :
             \E uploads \in UploadOutcomes(content, file_idx, extracted_images) :
                OracleReturns(content, uploads)
    /\ UNCHANGED <<nfiles, document, file_idx, extracted_images, temp_files>>
    /\ UNCHANGED persistVars

\* ------------------------------------------------- persistence, 495-551
\* lines 496 and 516: the upsert loop is reached under `if data_list:` and
\* `if st.button(...)`
UpsertLoopEntered_unasked(list, clicked) == list # <<>>

UpsertLoopEntered(list, clicked) == list # <<>> /\ clicked

\* lines 496 and 516: after the last file, the upsert loop is entered when
\* data_list is not empty and the button is pressed; the button is drawn
\* only under `if data_list:`
EndBatch ==
    /\ pc = "file"
    /\ file_idx = nfiles
    /\ button' \in (IF data_list # <<>> THEN BOOLEAN ELSE {FALSE})
    /\ pc' = IF UpsertLoopEntered(data_list, button') THEN "upsert" ELSE "done"
    /\ upsert_i' = 0
    /\ upload_errors' = FALSE
    /\ UNCHANGED <<nfiles, document, file_idx, extracted_images, temp_files, attempt,
                   data_list, any_errors, storage, log, slept, table,
                   file_results, upsert_results>>
    /\ UNCHANGED attemptVars

\* a plain insert
UpsertRow_insert(rows, record) == Append(rows, record)

\* upsert(record, on_conflict="questionStem"): the row with the record's
\* questionStem is replaced, or the record becomes a new row
UpsertRow(rows, record) ==
    IF \E i \in 1..Len(rows) : rows[i].questionStem = record.questionStem
    THEN [i \in 1..Len(rows) |->
             IF rows[i].questionStem = record.questionStem THEN record ELSE rows[i]]
    ELSE Append(rows, record)

\* the for loop of line 522 after record i of n: neither the error branch
\* (531-533) nor the handler (535-537) leaves the loop
AfterUpsert_stop_on_failure(i, n, outcome) ==
    IF i = n \/ outcome # "ok" THEN "done" ELSE "upsert"

AfterUpsert(i, n, outcome) == IF i = n THEN "done" ELSE "upsert"

\* lines 522-537: one record is upserted; the call succeeds, answers with an
\* error, or raises
Upsert ==
    /\ pc = "upsert"
    /\ upsert_i < Len(data_list)
    /\ upsert_i' = upsert_i + 1
    /\ \E outcome \in {"ok", "error", "exception"} :
          /\ table' = IF outcome = "ok" THEN UpsertRow(table, data_list[upsert_i']) ELSE table
          /\ upload_errors' = (upload_errors \/ outcome # "ok")
          /\ upsert_results' = Append(upsert_results,
                 [record |-> data_list[upsert_i'], outcome |-> outcome])
          /\ pc' = AfterUpsert(upsert_i', Len(data_list), outcome)
    /\ UNCHANGED <<nfiles, document, file_idx, extracted_images, temp_files, attempt,
                   data_list, any_errors, storage, log, slept, file_results, button>>
    /\ UNCHANGED attemptVars

\* ---------------------------------------------------------- specifications
\* a batch of up to MaxFiles files
Next == ProcessFile \/ Attempt(BatchReplies) \/ EndBatch \/ Upsert

Spec == Init /\ [][Next]_vars

\* the processing of a batch of one file, with every kind of reply
NextDoc == ProcessFile \/ Attempt(DocReplies)

SpecDoc == InitDoc /\ [][NextDoc]_vars

\* the processing of a batch of one file, the replies one JSON text each,
\* bare or fenced
NextFence == ProcessFile \/ Attempt(FenceReplies)

SpecFence == InitDoc /\ [][NextFence]_vars

\* the image extraction functions applied to a PDF or a DOCX
InitExtract ==
    /\ nfiles = 1
    /\ pc = "extract"
    /\ document \in PdfDocuments \cup DocxDocuments
    /\ Fresh

NextExtract == ExtractPdf \/ ExtractDocx

SpecExtract == InitExtract /\ [][NextExtract]_vars

\* ------------------------------------------------------------------ claims
\* the log of a file for which the oracle was called three times and every
\* reply failed to parse
ThreeFailures == <<"call", "sleep", "call", "sleep", "call", "terminal">>

\* every reply for the current file so far failed to parse
AllMalformed == \A i \in 1..Len(log) : log[i] \in {"call", "sleep", "terminal"}

\* C1: when every oracle reply for a file is malformed, the oracle is called
\* exactly 3 times with a delay of 5 after the first and after the second
\* call and none after the third; the error is flagged only after the third
\* failure, and no record is added.
C1_RetryBound ==
    AllMalformed =>
        IF pc = "attempt"
        THEN /\ attempt < 3
             /\ log = SubSeq(ThreeFailures, 1, 2 * attempt)
             /\ slept = 5 * attempt
             /\ ~any_errors
             /\ data_list = <<>>
        ELSE /\ log \in {<<>>, ThreeFailures}
             /\ log = ThreeFailures =>
                   /\ slept = 10
                   /\ any_errors
                   /\ data_list = <<>>
                   /\ storage = <<>>

C1_Witness == pc = "file" /\ log = ThreeFailures /\ any_errors

\* C2: a failure other than a JSON parse failure ends the work on the file
\* at once, at any attempt: it is the last event of the file, no delay is
\* added, the error flag is set and control has left the retry loop for the
\* batch loop.
C2_AbandonAtOnce ==
    \A i \in 1..Len(log) :
        log[i] = "abandon" =>
            /\ i = Len(log)
            /\ pc # "attempt"
            /\ any_errors
            /\ slept = retry_delay * attempt
            /\ Len(log) = 2 * (attempt + 1)

C2_Witness ==
    /\ pc = "file"
    /\ log = <<"call", "sleep", "call", "sleep", "call", "abandon">>
    /\ parsed_data.t = "dict"

\* -------- what the last attempt was given and did, read from the state
\* the JSON texts in the last reply
ResponseJson == SelectSeq(response, LAMBDA t : t.tok = "json")

\* the last reply parsed, and its JSON text is of the given kind
ParsedAs(kind) ==
    /\ parsed_data.t # "none"
    /\ Len(ResponseJson) = 1
    /\ ResponseJson[1].val.kind = kind

HasImage(q) == Get(q, "hasImage", FALSE)

\* the image position of the i-th question (i from 1), its own position in
\* the list when it declares none
Position(q, i) == Get(q, "imagePosition", JInt(i - 1))

ValidIndex(p) == p.t = "int" /\ 0 <= p.v /\ p.v < Len(extracted_images)

\* match_images_to_questions was called in the last attempt
BinderRan == extracted_images # <<>> /\ file_questions # <<>>

\* the questions at which the comparison of line 192 raises
Raisers ==
    {j \in DOMAIN file_questions :
        HasImage(file_questions[j]) /\ Position(file_questions[j], j).t = "null"}

\* the last attempt reached line 475
Accumulated == log # <<>> /\ log[Len(log)] = "accumulate"

UploadCalled(i) ==
    \E c \in DOMAIN upload_calls : upload_calls[c].question_index = i - 1

\* C3: a reply that parses to a mapping of keys to question objects gives
\* one question per distinct key, in the order in which the keys first
\* appear, each with the value written last for its key; the accumulated
\* records keep that count and order.
C3_OneRecordPerKey ==
    ParsedAs("mapping") =>
        LET entries == ResponseJson[1].val.entries
            keys == {entries[k].key : k \in DOMAIN entries}
            first(k) == \A j \in 1..(k - 1) : entries[j].key # entries[k].key
            rank(k) == Cardinality({j \in 1..k : first(j)})
            last(key) == CHOOSE k \in DOMAIN entries :
                            /\ entries[k].key = key
                            /\ \A j \in (k + 1)..Len(entries) : entries[j].key # key
        IN  /\ Len(file_questions) = Cardinality(keys)
            /\ Len(parsed_data.items) = Cardinality(keys)
            /\ \A k \in DOMAIN entries :
                  first(k) =>
                      file_questions[rank(k)] =
                          SetItem(entries[last(entries[k].key)].q, "source_file", file_idx)
            /\ Accumulated =>
                  /\ Len(data_list) = Cardinality(keys)
                  /\ \A i \in DOMAIN data_list :
                        Pop(data_list[i], "image") = CleanUp(file_questions[i])

C3_Witness ==
    /\ ParsedAs("mapping")
    /\ Accumulated
    /\ Len(data_list) = 2
    /\ ResponseJson[1].val.entries[1].key = "1"
    /\ file_questions[1] # file_questions[2]

\* C4: a reply that parses to a single question object gives exactly one
\* accumulated record with that object's fields.
C4_SingleObjectOneRecord ==
    (ParsedAs("single") /\ pc = "file") =>
        /\ Len(data_list) = 1
        /\ Pop(data_list[1], "image") = CleanUp(ResponseJson[1].val.entries[1].q)

\* C5: no accumulated record has a hasImage, imagePosition or source_file
\* field, with or without extracted images, matched or not.
C5_NoTransientFields ==
    \A i \in DOMAIN data_list :
        DOMAIN data_list[i] \cap {"hasImage", "imagePosition", "source_file"} = {}

C5_Witness ==
    /\ data_list # <<>>
    /\ {"hasImage", "imagePosition", "source_file"} \subseteq DOMAIN file_questions[1]
    /\ upload_calls # <<>>
    /\ upload_calls[1].result = "fail"

\* C6: a question whose image position is at or past the number of
\* extracted images gets no upload and is passed on without an image, and
\* the binder does not raise on it (it raises only at another question,
\* whose position is null).
C6_PositionPastEnd ==
    BinderRan =>
        \A i \in DOMAIN file_questions :
            LET p == Position(file_questions[i], i)
            IN  (p.t = "int" /\ p.v >= Len(extracted_images)) =>
                    /\ ~UploadCalled(i)
                    /\ Raisers = {} =>
                          /\ Accumulated
                          /\ final_questions[i] = CleanUp(file_questions[i])
                    /\ ~Accumulated => Raisers \ {i} # {}

C6_Witness ==
    /\ BinderRan
    /\ Accumulated
    /\ HasImage(file_questions[1])
    /\ "imagePosition" \in DOMAIN file_questions[1]
    /\ Position(file_questions[1], 1) = JInt(Len(extracted_images))
    /\ final_questions[1] = Content1

\* C7: an image is bound only for a position p with 0 <= p < number of
\* images, and any other position is skipped without failing the file.
C7_OnlyValidIndexBinds ==
    BinderRan =>
        /\ Accumulated
        /\ \A i \in DOMAIN file_questions :
              UploadCalled(i) => ValidIndex(Position(file_questions[i], i))

\* C8: an accumulated record has an image only if its question had a true
\* hasImage, a position within 0..number of images - 1 and a successful
\* upload, and the image is the URL of that upload.
C8_ImageOnlyWhenBound ==
    Accumulated =>
        \A i \in DOMAIN final_questions :
            "image" \in DOMAIN final_questions[i] =>
                /\ HasImage(file_questions[i])
                /\ ValidIndex(Position(file_questions[i], i))
                /\ \E c \in DOMAIN upload_calls :
                      /\ upload_calls[c].question_index = i - 1
                      /\ upload_calls[c].result = "ok"
                /\ \E k \in DOMAIN storage : storage[k].url = final_questions[i].image

\* C9: a failed upload leaves its question without an image and stops
\* nothing: the binder goes on to the questions after it, and the file is
\* accumulated unless the binder raises at a question with a null position.
C9_UploadFailureIsLocal ==
    \A c \in DOMAIN upload_calls :
        upload_calls[c].result = "fail" =>
            LET i == upload_calls[c].question_index + 1
            IN  /\ pc # "attempt"
                /\ Raisers = {} =>
                      /\ Accumulated
                      /\ Len(final_questions) = Len(file_questions)
                      /\ final_questions[i] = CleanUp(file_questions[i])
                      /\ SubSeq(data_list, Len(data_list) - Len(final_questions) + 1,
                                Len(data_list)) = final_questions
                /\ ~Accumulated => Raisers # {}
                /\ \A j \in (i + 1)..Len(file_questions) :
                      (/\ Raisers \cap (i + 1)..j = {}
                       /\ BindDecision(HasImage(file_questions[j]),
                                       Position(file_questions[j], j),
                                       extracted_images).act = "upload")
                      => UploadCalled(j)

C9_Witness ==
    /\ Accumulated
    /\ Len(upload_calls) = 2
    /\ upload_calls[1].result = "fail"
    /\ upload_calls[2].result = "ok"
    /\ "image" \notin DOMAIN data_list[1]
    /\ "image" \in DOMAIN data_list[2]

\* C10: every accumulated record has as many explanations as answers and a
\* correctAnswerId that is an index of answersArray.
C10_RecordsWellFormed ==
    \A i \in DOMAIN data_list :
        /\ Len(data_list[i].answersArray) = Len(data_list[i].explanationList)
        /\ 0 <= data_list[i].correctAnswerId
        /\ data_list[i].correctAnswerId < Len(data_list[i].answersArray)

\* the upsert calls that succeeded for a record with questionStem s
Stored(s) ==
    {i \in 1..Len(upsert_results) :
        /\ upsert_results[i].outcome = "ok"
        /\ upsert_results[i].record.questionStem = s}

\* the rows of the table with questionStem s
RowsOf(s) == {i \in 1..Len(table) : table[i].questionStem = s}

Latest(calls) == CHOOSE m \in calls : \A x \in calls : x <= m

UpsertedStems ==
    {upsert_results[i].record.questionStem : i \in 1..Len(upsert_results)}
        \cup {table[i].questionStem : i \in 1..Len(table)}

\* C11: the table holds at most one row per questionStem: none for a stem no
\* successful upsert carried, and otherwise exactly one, equal to the record
\* of the latest successful upsert with that stem.
C11_OneRowPerStem ==
    \A s \in UpsertedStems :
        IF Stored(s) = {}
        THEN RowsOf(s) = {}
        ELSE \E i \in 1..Len(table) :
                /\ RowsOf(s) = {i}
                /\ table[i] = upsert_results[Latest(Stored(s))].record

\* two files gave records with the same questionStem and different content,
\* both were upserted, and the single row holds the later one
C11_Witness ==
    /\ pc = "done"
    /\ Len(file_results) >= 2
    /\ Len(file_results[1].records) = 1
    /\ Len(file_results[2].records) = 1
    /\ Len(upsert_results) = 2
    /\ \A i \in 1..2 : /\ upsert_results[i].outcome = "ok"
                       /\ upsert_results[i].record = file_results[i].records[1]
    /\ upsert_results[1].record.questionStem = upsert_results[2].record.questionStem
    /\ upsert_results[1].record # upsert_results[2].record
    /\ table = <<upsert_results[2].record>>

\* C12: the upsert loop makes one upsert call per record of data_list, in
\* list order: call i carries record i, and once the loop has ended every
\* record has had its call.  A failure, error response or exception, is
\* recorded for its own record and raises upload_errors; it does not end the
\* loop, and the row of every earlier successful upsert stays in the table.
C12_EveryRecordUpserted ==
    /\ Len(upsert_results) = upsert_i
    /\ upsert_i <= Len(data_list)
    /\ \A i \in 1..Len(upsert_results) : upsert_results[i].record = data_list[i]
    /\ pc = "upsert" => upsert_i < Len(data_list)
    /\ (pc = "done" /\ button) => Len(upsert_results) = Len(data_list)
    /\ pc \in {"upsert", "done"} =>
          upload_errors =
              (\E i \in 1..Len(upsert_results) : upsert_results[i].outcome # "ok")
    /\ \A i \in 1..Len(upsert_results) :
          upsert_results[i].outcome = "ok" =>
              RowsOf(upsert_results[i].record.questionStem) # {}

\* the first upsert raised, the second was still made and stored its record
C12_Witness ==
    /\ pc = "done"
    /\ Len(upsert_results) = 2
    /\ upsert_results[1].outcome = "exception"
    /\ upsert_results[2].outcome = "ok"
    /\ upload_errors
    /\ table = <<data_list[2]>>

\* C13: once process_file_with_enhanced_extraction has returned, by success
\* or by failure, the temporary file of the PDF or DOCX no longer exists.
C13_TempFileDeleted == temp_files = {}

RECURSIVE Concatenation(_)
Concatenation(lists) ==
    IF lists = <<>> THEN <<>> ELSE Head(lists) \o Concatenation(Tail(lists))

\* the records of the files taken so far, file by file in upload order
RecordsByFile == [f \in 1..Len(file_results) |-> file_results[f].records]

\* the work on the current file ended as result
CurrentFileEnded(result) ==
    /\ pc \in {"file", "attempt"}
    /\ file_results # <<>>
    /\ file_results[Len(file_results)].result = result

\* C14: a file of an unsupported media type gives a failure result and the
\* run goes on: no oracle call and no image upload is made for the file, it
\* contributes no record, the error flag is set, and the batch loop is back
\* at its top, where the next file, if any, can be taken.
C14_UnsupportedSkipped ==
    /\ \A f \in 1..Len(file_results) :
          file_results[f].result = "unsupported" =>
              /\ file_results[f].records = <<>>
              /\ any_errors
    /\ data_list = Concatenation(RecordsByFile)
    /\ CurrentFileEnded("unsupported") =>
          /\ pc = "file"
          /\ log = <<>>
          /\ upload_calls = <<>>
          /\ final_questions = <<>>
          /\ file_idx < nfiles => ENABLED ProcessFile

\* the first file was of an unsupported type and the second file gave a record
C14_Witness ==
    /\ Len(file_results) = 2
    /\ file_results[1].result = "unsupported"
    /\ file_results[2].result = "accumulated"
    /\ data_list = file_results[2].records
    /\ data_list # <<>>
    /\ any_errors

\* the files whose work ended with their records added to data_list
Successful == SelectSeq(file_results, LAMBDA r : r.result = "accumulated")

\* the batch loop has taken its last file and left the retry loop
BatchProcessed == file_idx = nfiles /\ pc # "attempt"

\* C15: the files are taken one at a time in upload order, whatever
\* failures occur: there is one result per file taken, only the file just
\* taken can still be in the retry loop, and persistence is reached only
\* after the last file.  At every moment, and so once the batch is
\* processed, data_list is the concatenation, in upload order, of the record
\* lists of exactly the files that ended successfully.
C15_AccumulatesInUploadOrder ==
    /\ Len(file_results) = file_idx
    /\ file_idx <= nfiles
    /\ \A f \in 1..Len(file_results) :
          /\ file_results[f].result = "pending" => f = file_idx /\ pc = "attempt"
          /\ file_results[f].result # "accumulated" => file_results[f].records = <<>>
    /\ pc = "attempt" => file_results[file_idx].result = "pending"
    /\ pc \in {"upsert", "done"} => BatchProcessed
    /\ CurrentFileEnded("accumulated") =>
          file_results[file_idx].records = final_questions
    /\ data_list =
          Concatenation([f \in 1..Len(Successful) |-> Successful[f].records])

\* both files of a batch of two gave a record, the records differ, and
\* data_list holds the first file's record before the second's
C15_Witness ==
    /\ BatchProcessed
    /\ Len(file_results) = 2
    /\ \A f \in 1..2 : /\ file_results[f].result = "accumulated"
                       /\ Len(file_results[f].records) = 1
    /\ file_results[1].records # file_results[2].records
    /\ data_list = file_results[1].records \o file_results[2].records

\* an upsert has been or is about to be issued
Persisting == pc = "upsert" \/ upsert_results # <<>> \/ table # <<>>

\* C16: an upsert is issued only after the whole batch is processed, every
\* file having ended by success or failure, and only when the operator has
\* pressed the button and data_list is not empty.
C16_PersistAfterBatch ==
    Persisting =>
        /\ BatchProcessed
        /\ Len(file_results) = nfiles
        /\ \A f \in 1..nfiles :
              file_results[f].result \in
                  {"unsupported", "extraction_error", "accumulated",
                   "malformed", "abandoned"}
        /\ button
        /\ data_list # <<>>

\* the first file of two was given up after three malformed replies, the
\* second gave a record, the button was pressed and the record was stored
C16_Witness ==
    /\ pc = "done"
    /\ button
    /\ Len(file_results) = 2
    /\ file_results[1].result = "malformed"
    /\ file_results[2].result = "accumulated"
    /\ table = data_list
    /\ table # <<>>

\* the work on some file failed
SomeFileFailed ==
    \E f \in 1..Len(file_results) :
        file_results[f].result \in
            {"unsupported", "extraction_error", "malformed", "abandoned"}

\* an image upload of the last attempt of the current file failed
SomeUploadFailed ==
    \E c \in DOMAIN upload_calls : upload_calls[c].result = "fail"

\* C17: once the only file of a batch is processed, any_errors is true
\* exactly when a failure occurred: an unsupported format, an extraction
\* error, malformed replies to the last attempt, a transport or other error,
\* or a failed image upload.
C17_FlagIffFailure ==
    BatchProcessed => (any_errors <=> (SomeFileFailed \/ SomeUploadFailed))

\* the last reply is a JSON text between code-fence markers
ReplyIsFenced ==
    /\ Len(response) = 5
    /\ response[1].tok \in {"fence_json", "fence"}
    /\ response[3].tok = "json"
    /\ response[5].tok = "fence"

\* what the try body gives for the reply that is payload p alone
Unfenced(p) ==
    TryBody(Bare(p), file_idx, extracted_images,
            [i \in 1..MaxQuestions |-> "ok"], 0)

\* C18: a reply that is a valid JSON payload between code-fence markers is
\* parsed to the value of the payload as written, only the delimiting
\* markers being removed, and gives the same questions and the same records
\* as the payload alone.
C18_FencesOnlyStripped ==
    (ReplyIsFenced /\ pc = "file") =>
        LET p == response[3].val
        IN  /\ parsed_data = Decode(p)
            /\ file_questions = Unfenced(p).file_questions
            /\ final_questions = Unfenced(p).final_questions

\* how often ev is logged for the current file
Count(ev) == Cardinality({i \in DOMAIN log : log[i] = ev})

\* the reply to the last oracle call for the current file was parsed by
\* json.loads
ReplyParsed == parsed_data # NoData

\* C19: at most 3 oracle calls are made for a file; when the reply to call k
\* is the first to parse, k calls and k-1 delays have been made, the retry
\* loop has ended with no further call or delay, and the file's records
\* have been added to data_list once.
C19_StopsAtFirstParse ==
    /\ Count("call") <= max_retries
    /\ ReplyParsed =>
          /\ pc # "attempt"
          /\ Count("sleep") = Count("call") - 1
          /\ slept = retry_delay * (Count("call") - 1)
          /\ log[Len(log) - 1] = "call"
          /\ log[Len(log)] = "accumulate"
          /\ Count("accumulate") = 1
          /\ data_list = final_questions

\* the images of the PDF that decode, by page (from 1) and place in the
\* page's list (from 0)
DecodablePdfImages ==
    {pi \in (DOMAIN document.pages) \X (0..(MaxPageImages - 1)) :
        /\ pi[2] < Len(document.pages[pi[1]])
        /\ document.pages[pi[1]][pi[2] + 1].decodes}

\* the archive entries of the DOCX that are readable image files under the
\* media path, by listing position
ReadableDocxImages ==
    {k \in DOMAIN document.namelist :
        /\ document.namelist[k].media
        /\ document.namelist[k].ext \in ImageExtensions
        /\ document.namelist[k].readable}

\* C20: the images extracted from a document are exactly its images that
\* decode, each once, in document order: for a PDF by ascending page and
\* within a page in the page's list order, for a DOCX in the archive's
\* listing order of the image files under the media path.  An image that
\* fails to decode is left out and the others keep their order.
C20_ImagesInDocumentOrder ==
    pc = "extracted" =>
        LET n == Len(extracted_images)
        IN  IF document.type = "pdf"
            THEN /\ n = Cardinality(DecodablePdfImages)
                 /\ {<<extracted_images[k].page, extracted_images[k].index>> :
                         k \in 1..n} = DecodablePdfImages
                 /\ \A j, k \in 1..n :
                       j < k =>
                           \/ extracted_images[j].page < extracted_images[k].page
                           \/ /\ extracted_images[j].page = extracted_images[k].page
                              /\ extracted_images[j].index < extracted_images[k].index
            ELSE /\ n = Cardinality(ReadableDocxImages)
                 /\ {extracted_images[k].filename[1] : k \in 1..n} = ReadableDocxImages
                 /\ \A j, k \in 1..n :
                       j < k => extracted_images[j].filename[1]
                                    < extracted_images[k].filename[1]

\* a PDF of two pages whose first image does not decode: the second image
\* of page 1 and the image of page 2 are extracted, in that order
C20_Witness ==
    /\ pc = "extracted"
    /\ document.type = "pdf"
    /\ Len(document.pages) = 2
    /\ document.pages[1] = <<[decodes |-> FALSE], [decodes |-> TRUE]>>
    /\ document.pages[2] = <<[decodes |-> TRUE]>>
    /\ Len(extracted_images) = 2
    /\ extracted_images[1].page = 1
    /\ extracted_images[1].index = 1
    /\ extracted_images[2].page = 2

\* the only file of the batch has been processed
FileProcessed == file_idx = 1 /\ pc # "attempt"

\* the question objects of the reply parsed last, in order
ParsedQuestions == [i \in DOMAIN parsed_data.items |-> parsed_data.items[i].val]

\* data_list holds every question of the parsed reply, in order, cleaned
\* and with or without an image
HoldsEveryRecord ==
    /\ Len(data_list) = Len(ParsedQuestions)
    /\ \A i \in DOMAIN data_list :
          Pop(data_list[i], "image") = CleanUp(ParsedQuestions[i])

\* the objects the uploads of the last attempt stored
StoredByCalls ==
    LET ok == SelectSeq(upload_calls, LAMBDA c : c.result = "ok")
    IN  [k \in DOMAIN ok |-> ok[k].data]

\* C21: once the file is processed, data_list holds either every record of
\* the file's parsed reply, in order, or none of them; after an exception
\* other than a JSON parse failure (raised by the normalizer or the binder)
\* it holds none, while every image uploaded before the exception is still
\* in storage.
C21_AllOrNothing ==
    FileProcessed =>
        /\ data_list = <<>> \/ HoldsEveryRecord
        /\ (log # <<>> /\ log[Len(log)] = "abandon") => data_list = <<>>
        /\ [k \in DOMAIN storage |-> storage[k].data] = StoredByCalls

\* the image of the first question was uploaded, the second question made
\* the binder raise: no record is kept, the uploaded image is in storage
C21_Witness ==
    /\ FileProcessed
    /\ ReplyParsed
    /\ Len(ParsedQuestions) = 2
    /\ log[Len(log)] = "abandon"
    /\ Len(upload_calls) = 1
    /\ upload_calls[1].result = "ok"
    /\ upload_calls[1].question_index = 0
    /\ Len(storage) = 1
    /\ data_list = <<>>

\* C22: as long as every reply for the file failed to parse, nothing has
\* been uploaded and no record added; over all attempts for the file, the
\* records are added at most once (by the last attempt) and every image in
\* storage was uploaded by that one attempt, at most one per question.
C22_RetryDoesNotDuplicate ==
    /\ AllMalformed =>
          /\ upload_calls = <<>>
          /\ storage = <<>>
          /\ data_list = <<>>
    /\ data_list \in {<<>>, final_questions}
    /\ Len(storage) <= Len(upload_calls)
    /\ \A k \in DOMAIN storage :
          \E c \in DOMAIN upload_calls :
              /\ upload_calls[c].result = "ok"
              /\ storage[k].data = upload_calls[c].data
              /\ storage[k].url[2] = upload_calls[c].question_index
    /\ \A j, k \in DOMAIN storage :
          j # k => storage[j].url[2] # storage[k].url[2]

\* two replies failed to parse, the third was parsed and its image
\* uploaded: one object in storage, the records added once
C22_Witness ==
    /\ log = <<"call", "sleep", "call", "sleep", "call", "accumulate">>
    /\ Len(upload_calls) = 1
    /\ upload_calls[1].result = "ok"
    /\ Len(storage) = 1
    /\ data_list = final_questions
    /\ Len(data_list) = 1
    /\ "image" \in DOMAIN data_list[1]

\* the binder got as far as question i: no earlier question made it raise
BinderReached(i) == \A j \in 1..(i - 1) : j \notin Raisers

\* C23: in the binder, a question with a true hasImage and no imagePosition
\* uses its own zero-based place in the list as the image index: when that
\* is below the number of images the image there is uploaded, for this
\* question, and the record gets an image exactly when the upload succeeds;
\* otherwise nothing is uploaded and the record goes on without an image.
\* A question whose hasImage is false or absent causes no upload and no
\* exception, whatever its imagePosition, and its record has no image.
C23_DefaultPositionIsOwnIndex ==
    \A i \in DOMAIN file_questions :
        LET q == file_questions[i]
        IN  /\ (BinderRan /\ BinderReached(i) /\ HasImage(q)
                   /\ "imagePosition" \notin DOMAIN q) =>
                  IF i - 1 < Len(extracted_images)
                  THEN \E c \in DOMAIN upload_calls :
                          /\ upload_calls[c].question_index = i - 1
                          /\ upload_calls[c].data = extracted_images[i]
                          /\ Accumulated =>
                                ("image" \in DOMAIN final_questions[i]
                                    <=> upload_calls[c].result = "ok")
                  ELSE /\ ~UploadCalled(i)
                       /\ Accumulated => final_questions[i] = CleanUp(q)
            /\ ~HasImage(q) =>
                  /\ ~UploadCalled(i)
                  /\ i \notin Raisers
                  /\ Accumulated => final_questions[i] = CleanUp(q)

\* two questions with a true hasImage and no imagePosition, one image: the
\* first question gets the image, the second nothing
C23_Witness ==
    /\ BinderRan
    /\ Accumulated
    /\ Len(extracted_images) = 1
    /\ Len(file_questions) = 2
    /\ \A i \in 1..2 : /\ HasImage(file_questions[i])
                       /\ "imagePosition" \notin DOMAIN file_questions[i]
    /\ Len(upload_calls) = 1
    /\ upload_calls[1].question_index = 0
    /\ "image" \in DOMAIN final_questions[1]
    /\ "image" \notin DOMAIN final_questions[2]

====
